---- MODULE Spec2Model ----
(***************************************************************************)
(* Model of src/main.py: the country -> capital web application.           *)
(*                                                                         *)
(* Strings are sequences of one-character strings, so that lower(),        *)
(* strip() and capitalize() are computed and not assumed.  The persisted   *)
(* file country-capital.json is a sequence of records, or Corrupt once a   *)
(* write has truncated it without completing.  The dict countryCapital is  *)
(* a sequence of <<key, value>> pairs in insertion order (Python dicts     *)
(* keep it, and list(countryCapital.keys()) exposes it).                   *)
(***************************************************************************)
EXTENDS Integers, Sequences, FiniteSets, TLC

VARIABLES
    file,             \* contents of country-capital.json
    countryCapital,   \* the module-level dict
    all_countries_cache,
    writes,           \* save/confirm calls that reached the file so far
    last,             \* what the last sequential request did
    pc, req, data, result,  \* per-thread position, form, locals, outcome
    gets              \* per thread: the responses to its GETs of /v3.1/all

vars == <<file, countryCapital, all_countries_cache, writes, last,
          pc, req, data, result, gets>>

(***************************************************************************)
(* Bounds of the model.                                                    *)
(***************************************************************************)
MaxWrites == 2
NumThreads == 2

Threads == 1..NumThreads

(***************************************************************************)
(* Python str methods.                                                     *)
(***************************************************************************)
Uppers == <<"A","B","C","D","E","F","G","H","I","J","K","L","M",
            "N","O","P","Q","R","S","T","U","V","W","X","Y","Z">>
Lowers == <<"a","b","c","d","e","f","g","h","i","j","k","l","m",
            "n","o","p","q","r","s","t","u","v","w","x","y","z">>
Digits == {"0","1","2","3","4","5","6","7","8","9"}
Whitespace == {" "}

Range(s) == {s[i] : i \in DOMAIN s}

Chars == Range(Uppers) \cup Range(Lowers) \cup Digits \cup Whitespace

LowerMap ==
    [c \in Chars |->
        IF \E i \in DOMAIN Uppers : Uppers[i] = c
        THEN Lowers[CHOOSE i \in DOMAIN Uppers : Uppers[i] = c]
        ELSE c]

UpperMap ==
    [c \in Chars |->
        IF \E i \in DOMAIN Lowers : Lowers[i] = c
        THEN Uppers[CHOOSE i \in DOMAIN Lowers : Lowers[i] = c]
        ELSE c]

LowerChar(c) == LowerMap[c]

UpperChar(c) == UpperMap[c]

\* str.lower()
Lower(s) == [i \in DOMAIN s |-> LowerChar(s[i])]

RECURSIVE LStrip(_)
LStrip(s) ==
    IF s # <<>> /\ Head(s) \in Whitespace THEN LStrip(Tail(s)) ELSE s

RECURSIVE RStrip(_)
RStrip(s) ==
    IF s # <<>> /\ s[Len(s)] \in Whitespace
    THEN RStrip(SubSeq(s, 1, Len(s) - 1))
    ELSE s

\* str.strip()
Strip(s) == RStrip(LStrip(s))

\* str.capitalize(): first character upper-cased, the rest lower-cased
Capitalize(s) ==
    [i \in DOMAIN s |-> IF i = 1 THEN UpperChar(s[i]) ELSE LowerChar(s[i])]

(***************************************************************************)
(* The dict countryCapital.                                                *)
(***************************************************************************)
DictKeys(d) == [i \in DOMAIN d |-> d[i][1]]

DictHas(d, k) == \E i \in DOMAIN d : d[i][1] = k

\* Python's None where a string is expected: a sequence no string equals
\* (strings are sequences of one-character strings)
None == <<"None">>

\* dict.get(k): the value, or None
DictGet(d, k) ==
    IF DictHas(d, k) THEN d[CHOOSE i \in DOMAIN d : d[i][1] = k][2] ELSE None

\* DictSet as dict.setdefault: an existing key keeps its value
DictSetKeepsFirst(d, k, v) ==
    IF DictHas(d, k) THEN d ELSE Append(d, <<k, v>>)

\* DictSet as a list append: a key set again is held twice
DictSetAlwaysAppends(d, k, v) == Append(d, <<k, v>>)

\* d[k] = v: an existing key keeps its position, a new key goes last
DictSet(d, k, v) ==
    IF DictHas(d, k)
    THEN [i \in DOMAIN d |-> IF d[i][1] = k THEN <<k, v>> ELSE d[i]]
    ELSE Append(d, <<k, v>>)

\* lines 10-13: the dict built from the loaded entries
RECURSIVE LoadDict(_, _)
LoadDict(d, entries) ==
    IF entries = <<>> THEN d
    ELSE LoadDict(DictSet(d, Lower(Head(entries).country), Head(entries).capital),
                  Tail(entries))

(***************************************************************************)
(* fuzzywuzzy, as main.py calls it: process.extract(query, choices,        *)
(* scorer=fuzz.ratio, limit=5).  extract runs the default processor        *)
(* (utils.full_process) on the query and on every choice, scores the       *)
(* processed strings with fuzz.ratio, and returns the `limit` best         *)
(* (choice, score) pairs, best first, ties in the order of `choices`       *)
(* (heapq.nlargest).  fuzz.ratio is round(100 * 2*M / T) with M the        *)
(* matched characters (python-Levenshtein: the longest common              *)
(* subsequence) and T the two lengths together.                            *)
(***************************************************************************)
Alnum == Range(Uppers) \cup Range(Lowers) \cup Digits

IsAlnum(c) == c \in Alnum

FullProcess(s) ==
    Strip(Lower([i \in DOMAIN s |-> IF IsAlnum(s[i]) THEN s[i] ELSE " "]))

Max(a, b) == IF a >= b THEN a ELSE b

RECURSIVE LCS(_, _)
LCS(a, b) ==
    IF a = <<>> \/ b = <<>> THEN 0
    ELSE IF Head(a) = Head(b) THEN 1 + LCS(Tail(a), Tail(b))
    ELSE Max(LCS(Tail(a), b), LCS(a, Tail(b)))

\* Python 3 round(): to the nearest integer, a half to the even one
RoundDiv(x, t) ==
    LET q == x \div t
        r == x % t
    IN  IF 2 * r < t THEN q
        ELSE IF 2 * r > t THEN q + 1
        ELSE IF q % 2 = 0 THEN q ELSE q + 1

\* fuzz.ratio with its decorators: equal strings score 100, an empty one 0
Ratio(s1, s2) ==
    IF s1 = s2 THEN 100
    ELSE IF Len(s1) = 0 \/ Len(s2) = 0 THEN 0
    ELSE RoundDiv(200 * LCS(s1, s2), Len(s1) + Len(s2))

RemoveAt(s, i) == SubSeq(s, 1, i - 1) \o SubSeq(s, i + 1, Len(s))

\* heapq.nlargest(n, pairs, key=score)
RECURSIVE NLargest(_, _)
NLargest(n, pairs) ==
    IF n = 0 \/ pairs = <<>> THEN <<>>
    ELSE LET best == CHOOSE i \in DOMAIN pairs :
                        /\ \A j \in DOMAIN pairs : pairs[j][2] <= pairs[i][2]
                        /\ \A j \in 1..(i - 1) : pairs[j][2] < pairs[i][2]
         IN  <<pairs[best]>> \o NLargest(n - 1, RemoveAt(pairs, best))

\* process.extract(query, choices, scorer=fuzz.ratio, limit=limit)
Extract(query, choices, limit) ==
    NLargest(limit,
             [i \in DOMAIN choices |->
                 <<choices[i], Ratio(FullProcess(query), FullProcess(choices[i]))>>])

RECURSIVE Filter(_, _)
Filter(pairs, threshold) ==
    IF pairs = <<>> THEN <<>>
    ELSE IF Head(pairs)[2] >= threshold
         THEN <<Head(pairs)>> \o Filter(Tail(pairs), threshold)
         ELSE Filter(Tail(pairs), threshold)

ExtractLimit == 5
RemoteThreshold == 50
LocalThreshold == 60

\* find_similar_local_countries with limit=None: every match is kept
FindSimilarLocalCountriesNoLimit(d, country_name) ==
    LET local_countries == DictKeys(d)
        matches == Extract(country_name, local_countries, Len(local_countries))
        kept == Filter(matches, LocalThreshold)
    IN  IF local_countries = <<>> THEN <<>>
        ELSE [i \in DOMAIN kept |-> <<Capitalize(kept[i][1]), kept[i][2]>>]

\* find_similar_local_countries(country_name), reading the dict d
FindSimilarLocalCountries(d, country_name) ==
    LET local_countries == DictKeys(d)
        matches == Extract(country_name, local_countries, ExtractLimit)
        kept == Filter(matches, LocalThreshold)
    IN  IF local_countries = <<>> THEN <<>>
        ELSE [i \in DOMAIN kept |-> <<Capitalize(kept[i][1]), kept[i][2]>>]

(***************************************************************************)
(* The remote directory (restcountries.com) is outside the program: every  *)
(* call gets one of the responses below, chosen by the environment.        *)
(***************************************************************************)
Iran == <<"I","r","a","n">>
Oman == <<"O","m","a","n">>

\* the names GET /v3.1/all lists, and GET /v3.1/name/<x> answers with
Directory == <<Iran, Oman>>

\* Python's None where a list is expected
NoList == <<None>>

ValidateResponses ==
    {[kind |-> "ok", body |-> Directory[i]] : i \in DOMAIN Directory}
        \cup {[kind |-> "status", body |-> None], [kind |-> "error", body |-> None]}

AllResponses ==
    {[kind |-> "ok", body |-> Directory],
     [kind |-> "status", body |-> NoList],
     [kind |-> "error", body |-> NoList]}

\* validate_country without lines 47-48: a network error leaves it
ValidateCountryRaises(country_name, response) ==
    IF response.kind = "error"
    THEN [raised |-> TRUE, is_valid |-> FALSE, name |-> None]
    ELSE IF response.kind = "ok"
    THEN [raised |-> FALSE, is_valid |-> TRUE, name |-> response.body]
    ELSE [raised |-> FALSE, is_valid |-> FALSE, name |-> None]

\* validate_country(country_name), given the response to its GET.
\* raised: an exception leaves the function.
ValidateCountry(country_name, response) ==
    IF response.kind = "error"
    THEN [raised |-> FALSE, is_valid |-> FALSE, name |-> None]
    ELSE IF response.kind = "ok"
    THEN [raised |-> FALSE, is_valid |-> TRUE, name |-> response.body]
    ELSE [raised |-> FALSE, is_valid |-> FALSE, name |-> None]

\* get_all_countries caching the empty list it returns on a failure
GetAllCountriesCachesFailure(cache, response) ==
    IF cache # NoList
    THEN [raised |-> FALSE, ret |-> cache, cache |-> cache, fetched |-> FALSE]
    ELSE IF response.kind = "ok"
    THEN [raised |-> FALSE, ret |-> response.body, cache |-> response.body,
          fetched |-> TRUE]
    ELSE [raised |-> FALSE, ret |-> <<>>, cache |-> <<>>, fetched |-> TRUE]

\* get_all_countries without lines 22-23: the cache is never consulted
GetAllCountriesAlwaysFetches(cache, response) ==
    IF response.kind = "ok"
    THEN [raised |-> FALSE, ret |-> response.body, cache |-> response.body,
          fetched |-> TRUE]
    ELSE [raised |-> FALSE, ret |-> <<>>, cache |-> cache, fetched |-> TRUE]

\* get_all_countries(), given the cache and the response to its GET (which
\* it issues only when the cache is None).  cache: the cache afterwards.
GetAllCountries(cache, response) ==
    IF cache # NoList
    THEN [raised |-> FALSE, ret |-> cache, cache |-> cache, fetched |-> FALSE]
    ELSE IF response.kind = "error"
    THEN [raised |-> FALSE, ret |-> <<>>, cache |-> cache, fetched |-> TRUE]
    ELSE IF response.kind = "ok"
    THEN [raised |-> FALSE, ret |-> response.body, cache |-> response.body,
          fetched |-> TRUE]
    ELSE [raised |-> FALSE, ret |-> <<>>, cache |-> cache, fetched |-> TRUE]

\* find_similar_countries(country_name): the part after get_all_countries()
SimilarAmong(country_name, all_countries) ==
    IF all_countries = <<>> THEN <<>>
    ELSE Filter(Extract(country_name, all_countries, ExtractLimit), RemoteThreshold)

\* find_similar_countries(country_name)
FindSimilarCountries(country_name, cache, response) ==
    LET got == GetAllCountries(cache, response)
    IN  [raised |-> got.raised, cache |-> got.cache, fetched |-> got.fetched,
         ret |-> IF got.raised THEN <<>> ELSE SimilarAmong(country_name, got.ret)]

(***************************************************************************)
(* country-capital.json.  bytes: "json" (a complete dump of `entries`),    *)
(* "empty" (truncated by open(..., 'w'), nothing written yet) or           *)
(* "garbage" (an incomplete or overwritten dump).                          *)
(***************************************************************************)
\* json.dump(data, f): the text is the list of objects, each object its
\* members in the order of the dict (line 145: country, capital, type)
JsonDump(entries) ==
    [i \in DOMAIN entries |->
        <<<<"country", entries[i].country>>,
          <<"capital", entries[i].capital>>,
          <<"type", entries[i].type>>>>]

\* the value of member `key` of a JSON object (the last one of that name)
Member(object, key) ==
    object[CHOOSE k \in DOMAIN object :
              /\ object[k][1] = key
              /\ \A l \in DOMAIN object : object[l][1] = key => l <= k][2]

\* json.load(f): the list of dicts, as entry["country"] etc. read them
JsonLoad(text) ==
    [i \in DOMAIN text |->
        [country |-> Member(text[i], "country"),
         capital |-> Member(text[i], "capital"),
         type |-> Member(text[i], "type")]]

\* the file after a complete json.dump(entries, f): `entries` is what
\* json.load then reads
Json(entries) == [bytes |-> "json", entries |-> JsonLoad(JsonDump(entries))]
Truncated == [bytes |-> "empty", entries |-> <<>>]
Garbage == [bytes |-> "garbage", entries |-> <<>>]

\* what a failing file operation can be: none, open(..., 'r') / json.load,
\* open(..., 'w'), json.dump
IOOutcomes == {"ok", "read_fail", "open_fail", "dump_fail"}

\* line 145 / line 170
CountCap(country, city) ==
    [country |-> country, capital |-> city, type |-> "countryCapital"]

\* WriteBack without line 153: the dict is not updated
WriteBackNoDictUpdate(f, d, country, city, io) ==
    IF io = "read_fail" \/ f.bytes # "json"
    THEN [raised |-> TRUE, file |-> f, dict |-> d]
    ELSE IF io = "open_fail"
    THEN [raised |-> TRUE, file |-> f, dict |-> d]
    ELSE IF io = "dump_fail"
    THEN [raised |-> TRUE, file |-> Garbage, dict |-> d]
    ELSE [raised |-> FALSE,
          file |-> Json(Append(f.entries, CountCap(country, city))),
          dict |-> d]

\* WriteBack with line 153 moved before the write
WriteBackDictFirst(f, d, country, city, io) ==
    IF io = "read_fail" \/ f.bytes # "json"
    THEN [raised |-> TRUE, file |-> f, dict |-> d]
    ELSE IF io = "open_fail"
    THEN [raised |-> TRUE, file |-> f, dict |-> DictSet(d, Lower(country), city)]
    ELSE IF io = "dump_fail"
    THEN [raised |-> TRUE, file |-> Garbage,
          dict |-> DictSet(d, Lower(country), city)]
    ELSE [raised |-> FALSE,
          file |-> Json(Append(f.entries, CountCap(country, city))),
          dict |-> DictSet(d, Lower(country), city)]

\* WriteBack that skips an entry the file already holds
WriteBackDedup(f, d, country, city, io) ==
    IF io = "read_fail" \/ f.bytes # "json"
    THEN [raised |-> TRUE, file |-> f, dict |-> d]
    ELSE IF io = "open_fail"
    THEN [raised |-> TRUE, file |-> f, dict |-> d]
    ELSE IF io = "dump_fail"
    THEN [raised |-> TRUE, file |-> Garbage, dict |-> d]
    ELSE [raised |-> FALSE,
          file |-> IF \E i \in DOMAIN f.entries :
                         f.entries[i] = CountCap(country, city)
                   THEN f
                   ELSE Json(Append(f.entries, CountCap(country, city))),
          dict |-> DictSet(d, Lower(country), city)]

\* WriteBack with data.insert(0, countcap) for data.append(countcap)
WriteBackPrepends(f, d, country, city, io) ==
    IF io = "read_fail" \/ f.bytes # "json"
    THEN [raised |-> TRUE, file |-> f, dict |-> d]
    ELSE IF io = "open_fail"
    THEN [raised |-> TRUE, file |-> f, dict |-> d]
    ELSE IF io = "dump_fail"
    THEN [raised |-> TRUE, file |-> Garbage, dict |-> d]
    ELSE [raised |-> FALSE,
          file |-> Json(<<CountCap(country, city)>> \o f.entries),
          dict |-> DictSet(d, Lower(country), city)]

\* lines 145-153 of save (the same statements are lines 170-178 of
\* confirm_country): read the file, append, write it back, update the dict.
\* raised: an exception left the block; file, dict: their values afterwards.
WriteBack(f, d, country, city, io) ==
    IF io = "read_fail" \/ f.bytes # "json"
    THEN [raised |-> TRUE, file |-> f, dict |-> d]
    ELSE IF io = "open_fail"
    THEN [raised |-> TRUE, file |-> f, dict |-> d]
    ELSE IF io = "dump_fail"
    THEN [raised |-> TRUE, file |-> Garbage, dict |-> d]
    ELSE [raised |-> FALSE,
          file |-> Json(Append(f.entries, CountCap(country, city))),
          dict |-> DictSet(d, Lower(country), city)]

\* What a request leaves behind.  view: the template rendered ("error" when
\* an exception left the handler); country, city, suggestions: the
\* template's arguments.
Outcome(view, country, city, suggestions, f, d, cache, fetched, valid) ==
    [view |-> view, country |-> country, city |-> city,
     suggestions |-> suggestions, file |-> f, dict |-> d, cache |-> cache,
     fetched |-> fetched, valid |-> valid]

\* save() with the suggestions branch dropped, as in confirm_country
SaveRejectedNoSuggestions(f, d, country, city, similar) ==
    IF similar.raised
    THEN Outcome("error", None, None, <<>>, f, d, similar.cache,
                 similar.fetched, FALSE)
    ELSE Outcome("invalid_country", Capitalize(country), None, <<>>,
                 f, d, similar.cache, similar.fetched, FALSE)

\* save(), lines 131-139: the country did not validate; similar is what
\* find_similar_countries(country) gave
SaveRejected(f, d, country, city, similar) ==
    IF similar.raised
    THEN Outcome("error", None, None, <<>>, f, d, similar.cache,
                 similar.fetched, FALSE)
    ELSE IF similar.ret # <<>>
    THEN Outcome("suggestions", Capitalize(country), city, similar.ret,
                 f, d, similar.cache, similar.fetched, FALSE)
    ELSE Outcome("invalid_country", Capitalize(country), None, <<>>,
                 f, d, similar.cache, similar.fetched, FALSE)

\* save(), lines 141-155: the country validated as standardized_name
SaveAccepted(f, d, cache, standardized_name, city, io) ==
    LET w == WriteBack(f, d, standardized_name, Capitalize(city), io)
    IN  IF w.raised
        THEN Outcome("error", None, None, <<>>, w.file, w.dict, cache, FALSE, TRUE)
        ELSE Outcome("success", standardized_name, Capitalize(city), <<>>,
                     w.file, w.dict, cache, FALSE, TRUE)

\* save() without line 142: the entry gets the country as typed
SaveCallKeepsInput(f, d, cache, form_country, form_city, vresp, aresp, io) ==
    LET country == Strip(form_country)
        city == Strip(form_city)
        v == ValidateCountry(country, vresp)
    IN  IF v.raised
        THEN Outcome("error", None, None, <<>>, f, d, cache, FALSE, FALSE)
        ELSE IF ~v.is_valid
        THEN SaveRejected(f, d, country, city,
                          FindSimilarCountries(country, cache, aresp))
        ELSE SaveAccepted(f, d, cache, country, city, io)

\* save(), lines 122-155
SaveCall(f, d, cache, form_country, form_city, vresp, aresp, io) ==
    LET country == Strip(form_country)
        city == Strip(form_city)
        v == ValidateCountry(country, vresp)
    IN  IF v.raised
        THEN Outcome("error", None, None, <<>>, f, d, cache, FALSE, FALSE)
        ELSE IF ~v.is_valid
        THEN SaveRejected(f, d, country, city,
                          FindSimilarCountries(country, cache, aresp))
        ELSE SaveAccepted(f, d, cache, v.name, city, io)

\* confirm_country(), lines 157-182
ConfirmCall(f, d, cache, form_country, form_city, vresp, io) ==
    LET country == Strip(form_country)
        city == Strip(form_city)
        v == ValidateCountry(country, vresp)
        w == WriteBack(f, d, v.name, Capitalize(city), io)
    IN  IF v.raised
        THEN Outcome("error", None, None, <<>>, f, d, cache, FALSE, FALSE)
        ELSE IF v.is_valid
        THEN IF w.raised
             THEN Outcome("error", None, None, <<>>, w.file, w.dict, cache,
                          FALSE, TRUE)
             ELSE Outcome("success", v.name, Capitalize(city), <<>>, w.file,
                          w.dict, cache, FALSE, TRUE)
        ELSE Outcome("invalid_country", Capitalize(country), None, <<>>, f, d,
                     cache, FALSE, FALSE)

\* capital(), lines 87-103
CapitalCall(f, d, cache, form_city) ==
    LET country == Lower(form_city)
        city == DictGet(d, country)
        local_suggestions == FindSimilarLocalCountries(d, country)
    IN  IF city # None
        THEN Outcome("success", Capitalize(country), city, <<>>, f, d, cache,
                     FALSE, FALSE)
        ELSE IF local_suggestions # <<>>
        THEN Outcome("suggestions", Capitalize(country), <<>>, local_suggestions,
                     f, d, cache, FALSE, FALSE)
        ELSE Outcome("unknown", Capitalize(country), <<>>, <<>>, f, d, cache,
                     FALSE, FALSE)

\* select_local(), lines 111-120.  `if city:` is false for None and for ""
SelectLocalCall(f, d, cache, form_country) ==
    LET country == Lower(form_country)
        city == DictGet(d, country)
    IN  IF city # None /\ city # <<>>
        THEN Outcome("success", Capitalize(country), city, <<>>, f, d, cache,
                     FALSE, FALSE)
        ELSE Outcome("unknown", Capitalize(country), <<>>, <<>>, f, d, cache,
                     FALSE, FALSE)

\* ask(), lines 105-109
AskCall(f, d, cache, form_country, form_city) ==
    Outcome("success", Capitalize(Lower(form_country)), form_city, <<>>, f, d,
            cache, FALSE, FALSE)

(***************************************************************************)
(* Inputs: the form fields a client posts, and the file found at startup.  *)
(***************************************************************************)
Rome == <<"R","o","m","e">>

\* request.form['country'] of /save and /confirm_country
FormCountries ==
    {<<" ","i","r","a","n"," ">>, <<"z","z">>}

\* request.form['city'] of /save and /confirm_country
FormCities == {<<" ">>, <<" ","d","o","H","a">>}

\* request.form['city'] of /capital, request.form['country'] of /select_local
Queries ==
    {<<"I","R","A","N">>, <<" ","I","r","a","n">>, <<"i","r","a","x">>,
     <<"z","z">>}

\* country-capital.json at startup: empty, one entry, and six entries whose
\* names are all close to "irax"
SixNames ==
    <<Iran, <<"I","r","a","q">>, <<"I","r","a","k">>, <<"I","r","a","m">>,
      <<"I","r","a","s">>, <<"I","r","a","d">>>>

InitialFiles ==
    {<<>>,
     <<CountCap(Iran, Rome)>>,
     [i \in DOMAIN SixNames |-> CountCap(SixNames[i], Rome)]}

(***************************************************************************)
(* State after import: lines 7-16.                                         *)
(***************************************************************************)
NoRequest == [country |-> None, city |-> None, valid |-> FALSE]

\* no response: the call was not made
NoValidate == [kind |-> "none", body |-> None]
NoAll == [kind |-> "none", body |-> NoList]

Loaded ==
    [op |-> "load", country |-> None, city |-> None, validate |-> NoValidate,
     all |-> NoAll, io |-> "none", view |-> "none", shown_country |-> None,
     shown_city |-> None, suggestions |-> <<>>, fetched |-> FALSE,
     valid |-> FALSE, file0 |-> Json(<<>>), dict0 |-> <<>>, cache0 |-> NoList]

Init ==
    /\ \E entries \in InitialFiles :
          /\ file = Json(entries)
          /\ countryCapital = LoadDict(<<>>, entries)
    /\ all_countries_cache = NoList
    /\ writes = 0
    /\ last = Loaded
    /\ pc = [t \in Threads |-> "idle"]
    /\ req = [t \in Threads |-> NoRequest]
    /\ data = [t \in Threads |-> <<>>]
    /\ result = [t \in Threads |-> "none"]
    /\ gets = [t \in Threads |-> <<>>]

threadVars == <<pc, req, data, result, gets>>

(***************************************************************************)
(* Requests served one at a time: each action is a whole handler.          *)
(***************************************************************************)
Request(op, form_country, form_city, vresp, aresp, io, o) ==
    /\ o.valid => writes < MaxWrites
    /\ file' = o.file
    /\ countryCapital' = o.dict
    /\ all_countries_cache' = o.cache
    /\ writes' = IF o.valid THEN writes + 1 ELSE writes
    /\ last' = [op |-> op, country |-> form_country, city |-> form_city,
                validate |-> vresp,
                all |-> IF o.fetched THEN aresp ELSE NoAll,
                io |-> IF o.valid THEN io ELSE "none",
                view |-> o.view, shown_country |-> o.country,
                shown_city |-> o.city, suggestions |-> o.suggestions,
                fetched |-> o.fetched, valid |-> o.valid,
                file0 |-> file, dict0 |-> countryCapital,
                cache0 |-> all_countries_cache]
    /\ UNCHANGED threadVars

Capital ==
    \E q \in Queries :
        Request("capital", q, None, NoValidate, NoAll, "none",
                CapitalCall(file, countryCapital, all_countries_cache, q))

SelectLocal ==
    \E q \in Queries :
        Request("select_local", q, None, NoValidate, NoAll, "none",
                SelectLocalCall(file, countryCapital, all_countries_cache, q))

Ask ==
    \E c \in FormCountries, city \in FormCities :
        Request("ask", c, city, NoValidate, NoAll, "none",
                AskCall(file, countryCapital, all_countries_cache, c, city))

Save(ios) ==
    \E c \in FormCountries, city \in FormCities, vresp \in ValidateResponses,
       aresp \in AllResponses, io \in ios :
        \* a response or a failure that the call never meets is not an input
        /\ (vresp.kind = "ok" \/ all_countries_cache # NoList) => aresp.kind = "ok"
        /\ vresp.kind # "ok" => io = "ok"
        /\ Request("save", c, city, vresp, aresp, io,
                   SaveCall(file, countryCapital, all_countries_cache, c, city,
                            vresp, aresp, io))

ConfirmCountry(ios) ==
    \E c \in FormCountries, city \in FormCities, vresp \in ValidateResponses,
       io \in ios :
        /\ vresp.kind # "ok" => io = "ok"
        /\ Request("confirm_country", c, city, vresp, NoAll, io,
                   ConfirmCall(file, countryCapital, all_countries_cache, c,
                               city, vresp, io))

\* the file system works
Next ==
    \/ Capital
    \/ SelectLocal
    \/ Ask
    \/ Save({"ok"})
    \/ ConfirmCountry({"ok"})

Spec == Init /\ [][Next]_vars

\* file operations may fail
NextIO ==
    \/ Capital
    \/ SelectLocal
    \/ Ask
    \/ Save(IOOutcomes)
    \/ ConfirmCountry(IOOutcomes)

SpecIO == Init /\ [][NextIO]_vars

(***************************************************************************)
(* /save requests served by concurrent threads (app.run serves each        *)
(* request in its own thread and main.py takes no lock): a thread's steps  *)
(* are its accesses to the network, the file and the globals.              *)
(***************************************************************************)
Finish(t, view) ==
    /\ pc' = [pc EXCEPT ![t] = "done"]
    /\ result' = [result EXCEPT ![t] = view]

\* lines 124-130: strip the form, validate
TValidate(t) ==
    /\ pc[t] = "idle"
    /\ \E c \in FormCountries, city \in FormCities, vresp \in ValidateResponses :
          LET v == ValidateCountry(Strip(c), vresp)
          IN  IF v.raised
              THEN /\ Finish(t, "error")
                   /\ UNCHANGED req
              ELSE IF v.is_valid
              THEN /\ req' = [req EXCEPT ![t] =
                                 [country |-> v.name,
                                  city |-> Capitalize(Strip(city)),
                                  valid |-> TRUE]]
                   /\ pc' = [pc EXCEPT ![t] = "read"]
                   /\ UNCHANGED result
              ELSE /\ req' = [req EXCEPT ![t] =
                                 [country |-> Strip(c), city |-> Strip(city),
                                  valid |-> FALSE]]
                   /\ pc' = [pc EXCEPT ![t] = "similar"]
                   /\ UNCHANGED result
    /\ UNCHANGED <<file, countryCapital, all_countries_cache, writes, last,
                   gets, data>>

SimilarView(country_name, all_countries) ==
    IF SimilarAmong(country_name, all_countries) # <<>>
    THEN "suggestions" ELSE "invalid_country"

\* lines 132, 52, 22-23: the cache is read; a set cache is returned
TCacheCheck(t) ==
    /\ pc[t] = "similar"
    /\ IF all_countries_cache # NoList
       THEN Finish(t, SimilarView(req[t].country, all_countries_cache))
       ELSE /\ pc' = [pc EXCEPT ![t] = "fetch"]
            /\ UNCHANGED result
    /\ UNCHANGED <<file, countryCapital, all_countries_cache, writes, last, gets,
                   req, data>>

\* TFetch with a retry: after a failed GET the thread issues another
TFetchRetries(t) ==
    /\ pc[t] = "fetch"
    /\ \E aresp \in AllResponses :
          LET got == GetAllCountries(NoList, aresp)
          IN  /\ all_countries_cache' =
                    IF got.cache # NoList THEN got.cache ELSE all_countries_cache
              /\ gets' = [gets EXCEPT ![t] = Append(@, aresp.kind)]
              /\ IF aresp.kind = "ok"
                 THEN Finish(t, SimilarView(req[t].country, got.ret))
                 ELSE UNCHANGED <<pc, result>>
    /\ UNCHANGED <<file, countryCapital, writes, last, req, data>>

\* lines 25-35: the GET and, on 200, the assignment to the cache
TFetch(t) ==
    /\ pc[t] = "fetch"
    /\ \E aresp \in AllResponses :
          LET got == GetAllCountries(NoList, aresp)
          IN  /\ all_countries_cache' =
                    IF got.cache # NoList THEN got.cache ELSE all_countries_cache
              /\ gets' = [gets EXCEPT ![t] = Append(@, aresp.kind)]
              /\ IF got.raised
                 THEN Finish(t, "error")
                 ELSE Finish(t, SimilarView(req[t].country, got.ret))
    /\ UNCHANGED <<file, countryCapital, writes, last, req, data>>

\* lines 145-148: read the file and append to the local list
TRead(t) ==
    /\ pc[t] = "read"
    /\ IF file.bytes = "json"
       THEN /\ data' = [data EXCEPT ![t] =
                           Append(file.entries,
                                  CountCap(req[t].country, req[t].city))]
            /\ pc' = [pc EXCEPT ![t] = "open_w"]
            /\ UNCHANGED result
       ELSE /\ Finish(t, "error")
            /\ UNCHANGED data
    /\ UNCHANGED <<file, countryCapital, all_countries_cache, writes, last,
                   gets, req>>

\* line 149: open(..., 'w') truncates the file
TOpenW(t) ==
    /\ pc[t] = "open_w"
    /\ file' = Truncated
    /\ pc' = [pc EXCEPT ![t] = "dump"]
    /\ UNCHANGED <<countryCapital, all_countries_cache, writes, last, gets, req,
                   data, result>>

\* line 150: the dump is written from offset 0.  Over bytes another thread
\* wrote since this thread's open, a shorter dump leaves the other's tail.
TDump(t) ==
    /\ pc[t] = "dump"
    /\ \/ file' = Json(data[t])
       \/ /\ file # Truncated
          /\ file' = Garbage
    /\ pc' = [pc EXCEPT ![t] = "update"]
    /\ UNCHANGED <<countryCapital, all_countries_cache, writes, last, gets, req,
                   data, result>>

\* lines 153-155: update the dict, render success.html
TUpdate(t) ==
    /\ pc[t] = "update"
    /\ countryCapital' =
          DictSet(countryCapital, Lower(req[t].country), req[t].city)
    /\ Finish(t, "success")
    /\ UNCHANGED <<file, all_countries_cache, writes, last, gets, req, data>>

NextThreads ==
    \E t \in Threads :
        \/ TValidate(t)
        \/ TCacheCheck(t)
        \/ TFetch(t)
        \/ TRead(t)
        \/ TOpenW(t)
        \/ TDump(t)
        \/ TUpdate(t)

SpecThreads == Init /\ [][NextThreads]_vars

(***************************************************************************)
(* The vocabulary of the specification.                                    *)
(***************************************************************************)
\* normalize(s): trim, then case-fold
Normalize(s) == Lower(Strip(s))

\* resolveExact(country): the lookup of capital(), lines 89-90
ResolveExact(country) == DictGet(countryCapital, Lower(country))

\* entry i is the last entry of `entries` with its lower-cased country
IsLastOfCountry(entries, i) ==
    \A j \in DOMAIN entries :
        Lower(entries[j].country) = Lower(entries[i].country) => j <= i

SaveOps == {"save", "confirm_country"}

(***************************************************************************)
(* Claims.                                                                 *)
(***************************************************************************)

\* C1: when concurrent /save requests with pairwise distinct validated
\* countries have all finished, every one of them succeeded and the file
\* holds the entry of every one of them.
C1_NoLostUpdate ==
    (/\ \A t \in Threads : pc[t] = "done" /\ req[t].valid
     /\ \A t, u \in Threads : t # u => req[t].country # req[u].country)
    => /\ \A t \in Threads : result[t] = "success"
       /\ file.bytes = "json"
       /\ \A t \in Threads :
             \E i \in DOMAIN file.entries :
                 file.entries[i] = CountCap(req[t].country, req[t].city)

\* C2: with requests served one at a time and a working file system, the
\* dict's keys are exactly the lower-cased countries of the file's entries
\* and each key maps to the capital of the last entry with that country.
C2_DictDerivedFromFile ==
    /\ file.bytes = "json"
    /\ Range(DictKeys(countryCapital))
          = {Lower(file.entries[i].country) : i \in DOMAIN file.entries}
    /\ \A i \in DOMAIN file.entries :
          IsLastOfCountry(file.entries, i)
              => DictGet(countryCapital, Lower(file.entries[i].country))
                    = file.entries[i].capital

\* C2 witness: a save has just put a second entry for a stored country,
\* with another capital
C2_Witness ==
    /\ last.op \in SaveOps
    /\ last.view = "success"
    /\ \E i \in DOMAIN file.entries :
          /\ i < Len(file.entries)
          /\ Lower(file.entries[i].country)
                = Lower(file.entries[Len(file.entries)].country)
          /\ file.entries[i].capital # file.entries[Len(file.entries)].capital

\* C3 as stated: every entry of the file resolves to its own capital.
C3_EveryEntryResolves ==
    file.bytes = "json" =>
        \A i \in DOMAIN file.entries :
            ResolveExact(Normalize(file.entries[i].country))
                = file.entries[i].capital

\* C3 amended: every entry of the file that is the last one with its
\* country (compared case-insensitively) resolves to its own capital.
C3_LastEntryResolves ==
    file.bytes = "json" =>
        \A i \in DOMAIN file.entries :
            IsLastOfCountry(file.entries, i)
                => ResolveExact(Normalize(file.entries[i].country))
                      = file.entries[i].capital

\* C3 witness: after a save, the file holds an earlier entry for the saved
\* country with another capital, and the saved one is what resolves
C3_Witness ==
    /\ last.op = "save"
    /\ last.view = "success"
    /\ Len(file.entries) >= 2
    /\ Lower(file.entries[1].country) = Lower(last.shown_country)
    /\ file.entries[1].capital # last.shown_city
    /\ ResolveExact(Normalize(last.shown_country)) = last.shown_city

\* C4: a query that differs from a stored country only in letter case or
\* surrounding whitespace gets, from /capital and from /select_local, the
\* capital stored for that country.
C4_VariantsResolve ==
    (last.op \in {"capital", "select_local"} /\ file.bytes = "json") =>
        \A i \in DOMAIN file.entries :
            (/\ IsLastOfCountry(file.entries, i)
             /\ Normalize(last.country) = Normalize(file.entries[i].country))
            => /\ last.view = "success"
               /\ last.shown_city = file.entries[i].capital

\* the capital save() and confirm_country() store for a submitted city
DisplayCased(form_city) == Capitalize(Strip(form_city))

\* C5: when validation answers with the canonical name C, save/confirm
\* appends exactly one entry, with country C and the display-cased capital,
\* and C then resolves to that capital.
C5_CanonicalEntrySaved ==
    (last.op \in SaveOps /\ last.validate.kind = "ok") =>
        /\ last.view = "success"
        /\ file = Json(Append(last.file0.entries,
                              CountCap(last.validate.body,
                                       DisplayCased(last.city))))
        /\ ResolveExact(Normalize(last.validate.body)) = DisplayCased(last.city)

\* C5 witness: the form's country is not the canonical name, the city is
\* not display-cased as typed
C5_Witness ==
    /\ last.op = "save"
    /\ last.validate.kind = "ok"
    /\ Normalize(last.country) # Normalize(last.validate.body)
    /\ last.city # DisplayCased(last.city)
    /\ DisplayCased(last.city) # <<>>
    /\ last.view = "success"

\* suggestRemote(country) as the last /save request met it
SuggestRemoteOfLast ==
    FindSimilarCountries(Strip(last.country), last.cache0, last.all).ret

\* C6: /save ends in exactly one of three outcomes: saved when validation
\* succeeds; needs-disambiguation, carrying suggestRemote's candidates, when
\* it does not and suggestRemote is nonempty; invalid when it is empty.
C6_ThreeOutcomes ==
    last.op = "save" =>
        /\ last.view \in {"success", "suggestions", "invalid_country"}
        /\ last.view = "success" <=> last.validate.kind = "ok"
        /\ last.view = "suggestions" <=>
              (last.validate.kind # "ok" /\ SuggestRemoteOfLast # <<>>)
        /\ last.view = "invalid_country" <=>
              (last.validate.kind # "ok" /\ SuggestRemoteOfLast = <<>>)
        /\ last.view = "suggestions" => last.suggestions = SuggestRemoteOfLast
        /\ last.view # "suggestions" => last.suggestions = <<>>

\* C6 witness: the needs-disambiguation outcome, with its candidates
C6_Witness ==
    /\ last.op = "save"
    /\ last.view = "suggestions"
    /\ Len(last.suggestions) >= 1
    /\ last.validate.kind = "status"

\* C7: suggestLocal returns at most 5 candidates, each scoring at least 60,
\* each a key of the dict once normalized, for every query in every state.
C7_LocalSuggestionsBounded ==
    \A q \in Queries :
        LET found == FindSimilarLocalCountries(countryCapital, Lower(q))
        IN  /\ Len(found) <= 5
            /\ \A i \in DOMAIN found :
                  /\ found[i][2] >= 60
                  /\ DictHas(countryCapital, Normalize(found[i][1]))

\* C7 witness: /capital has answered with 5 suggestions out of more than 5
\* keys, in a store where another query gets none from a nonempty store
C7_Witness ==
    /\ last.op = "capital"
    /\ last.view = "suggestions"
    /\ Len(last.suggestions) = 5
    /\ Len(countryCapital) > 5
    /\ \E q \in Queries :
          FindSimilarLocalCountries(countryCapital, Lower(q)) = <<>>

\* C8: a failed fetch in allCountries gives an empty result and no error,
\* leaves the cache unset and suggestRemote empty; every call made with the
\* cache unset issues a fetch, and a fetch that succeeds sets the cache.
C8_FailedFetchLeavesCacheUnset ==
    last.op = "save" =>
        /\ (last.fetched /\ last.all.kind # "ok")
              => /\ last.view = "invalid_country"
                 /\ last.suggestions = <<>>
                 /\ all_countries_cache = NoList
        /\ (last.validate.kind # "ok" /\ last.cache0 = NoList) => last.fetched
        /\ (last.fetched /\ last.all.kind = "ok")
              => all_countries_cache = last.all.body

\* C8 witness: a /save whose fetch failed, with a name the directory would
\* have had suggestions for
C8_Witness ==
    /\ last.op = "save"
    /\ last.fetched
    /\ last.all.kind \in {"status", "error"}
    /\ SimilarAmong(Strip(last.country), Directory) # <<>>
    /\ all_countries_cache = NoList

\* C9: validate never raises: a non-success response or a network failure
\* ends save/confirm in needs-disambiguation or invalid, never in an error.
C9_ValidateNeverFatal ==
    last.op \in SaveOps =>
        /\ last.view # "error"
        /\ last.valid <=> last.validate.kind = "ok"
        /\ last.validate.kind \in {"status", "error"}
              => last.view \in {"suggestions", "invalid_country"}

\* C9 witness: a network failure during validation, in /save and in
\* /confirm_country
C9_Witness ==
    /\ last.op \in SaveOps
    /\ last.validate.kind = "error"
    /\ last.view \in {"suggestions", "invalid_country"}

\* C10: when the read-modify-write of the file fails at any step, the
\* request ends in an error and the dict is what it was before the call.
C10_FailedWriteLeavesDict ==
    (/\ last.op \in SaveOps
     /\ last.valid
     /\ (last.io # "ok" \/ last.file0.bytes # "json"))
    => /\ last.view = "error"
       /\ countryCapital = last.dict0

\* C10 witness: the dump failed after the file was opened for writing
C10_Witness ==
    /\ last.op \in SaveOps
    /\ last.io = "dump_fail"
    /\ last.file0.bytes = "json"
    /\ last.view = "error"
    /\ ~DictHas(last.dict0, Lower(last.validate.body))

\* C11: when the write of the file fails after it has started (the file
\* is open for writing, the dump is not complete), the file still holds
\* the sequence it held before the call.
C11_FailedDumpKeepsFile ==
    (/\ last.op \in SaveOps
     /\ last.io = "dump_fail"
     /\ last.file0.bytes = "json")
    => file = last.file0

\* C12: a save of the canonical country and capital that the save before
\* it stored appends a second, equal entry and leaves the first as it was;
\* the country resolves to that capital after the first save and after the
\* second.
C12_SameSaveTwice ==
    (/\ last.op \in SaveOps
     /\ last.view = "success"
     /\ last.file0.entries # <<>>
     /\ last.file0.entries[Len(last.file0.entries)]
           = CountCap(last.shown_country, last.shown_city))
    => /\ file = Json(Append(last.file0.entries,
                             CountCap(last.shown_country, last.shown_city)))
       /\ Len(file.entries) = Len(last.file0.entries) + 1
       /\ file.entries[Len(file.entries) - 1] = file.entries[Len(file.entries)]
       /\ DictGet(last.dict0, Lower(last.shown_country)) = last.shown_city
       /\ ResolveExact(last.shown_country) = last.shown_city

\* C12 witness: two saves were made, of the same country and capital
C12_Witness ==
    /\ last.op \in SaveOps
    /\ last.view = "success"
    /\ writes = 2
    /\ Len(file.entries) >= 2
    /\ file.entries[Len(file.entries) - 1] = file.entries[Len(file.entries)]
    /\ file.entries[Len(file.entries)]
          = CountCap(last.shown_country, last.shown_city)

C14_CapitalNonEmpty ==
    /\ file.bytes = "json" =>
          \A i \in DOMAIN file.entries : file.entries[i].capital # <<>>
    /\ \A i \in DOMAIN countryCapital : countryCapital[i][2] # <<>>

\* C15: every successful insert extends the file's sequence by exactly one
\* entry, at the end, and leaves the entries before it as they were; so
\* after N inserts the file read back holds the N country/capital pairs
\* after those it started with, in insertion order.
C15_InsertAppendsOne ==
    /\ file.bytes = "json"
    /\ Len(file.entries) - writes \in {Len(f) : f \in InitialFiles}
    /\ (last.op \in SaveOps /\ last.view = "success")
          => /\ Len(file.entries) = Len(last.file0.entries) + 1
             /\ SubSeq(file.entries, 1, Len(last.file0.entries))
                   = last.file0.entries
             /\ file.entries[Len(file.entries)].country = last.shown_country
             /\ file.entries[Len(file.entries)].capital = last.shown_city

\* C15 witness: two inserts into the empty store, of different countries
C15_Witness ==
    /\ last.op \in SaveOps
    /\ last.view = "success"
    /\ writes = 2
    /\ Len(file.entries) = 2
    /\ file.entries[1].country # file.entries[2].country
    /\ file.entries[2].country = last.shown_country

\* suggestLocal(query) as /capital computes it
SuggestLocal(query) == FindSimilarLocalCountries(countryCapital, Lower(query))

\* C16: the query path issues no network call and changes neither the
\* file, the dict nor the cache; it ends in ExactHit exactly when the
\* normalized query is a key of the dict, otherwise in LocalSuggestions
\* exactly when suggestLocal is nonempty, otherwise in Unknown.
C16_QueryPath ==
    last.op = "capital" =>
        /\ ~last.fetched
        /\ file = last.file0
        /\ countryCapital = last.dict0
        /\ all_countries_cache = last.cache0
        /\ last.view = "success"
              <=> DictHas(countryCapital, Normalize(last.country))
        /\ last.view = "suggestions"
              <=> /\ ~DictHas(countryCapital, Normalize(last.country))
                  /\ SuggestLocal(last.country) # <<>>
        /\ last.view = "unknown"
              <=> /\ ~DictHas(countryCapital, Normalize(last.country))
                  /\ SuggestLocal(last.country) = <<>>

\* C17: once the cache holds a fetched list, no request changes or unsets
\* it, and a request that calls allCountries gets that list without an
\* outbound fetch.
C17_CacheKept ==
    last.cache0 # NoList =>
        /\ all_countries_cache = last.cache0
        /\ ~last.fetched
        /\ (last.op = "save" /\ ~last.valid)
              => last.suggestions = SimilarAmong(Strip(last.country), last.cache0)

\* C17 witness: a /save that did not validate was answered from the cache
C17_Witness ==
    /\ last.op = "save"
    /\ ~last.valid
    /\ last.cache0 = Directory
    /\ last.view = "suggestions"
    /\ all_countries_cache = Directory

\* the threads whose GET of /v3.1/all was answered with status 200
FetchedOk == {t \in Threads : \E i \in DOMAIN gets[t] : gets[t][i] = "ok"}

\* C18 as stated: with the directory reachable, concurrent allCountries
\* calls made while the cache is unset issue at most one fetch in all.
C18_AtMostOneFetch == Cardinality(FetchedOk) <= 1

\* C18 amended: population of the cache is not guarded; each allCountries
\* call issues at most one fetch, and only a call that found the cache
\* unset issues one, so concurrent first calls issue at most one each.
C18_OneFetchPerCall ==
    \A t \in Threads :
        /\ Len(gets[t]) <= 1
        /\ gets[t] # <<>> => (pc[t] = "done" /\ ~req[t].valid)
        /\ (all_countries_cache = NoList) <=> (FetchedOk = {})

\* C18 witness: two threads found the cache unset and both fetched the list
C18_Witness ==
    /\ Cardinality(FetchedOk) >= 2
    /\ all_countries_cache = Directory
    /\ \A t \in FetchedOk : pc[t] = "done"

\* suggestRemote(country) for the name of the last save or confirm request,
\* from the list that request had at hand
RemoteCandidatesOfLast ==
    IF last.op = "save" THEN SuggestRemoteOfLast
    ELSE SimilarAmong(Strip(last.country), last.cache0)

\* C19: the confirm flow re-enters the Validating step of the first
\* submission: from either flow a valid name is persisted, an invalid name
\* with remote suggestions awaits confirmation with those suggestions, and
\* an invalid name without remote suggestions is rejected.
C19_ConfirmReentersValidating ==
    (last.op = "save" \/ (last.op = "confirm_country" /\ last.cache0 # NoList))
    =>  /\ last.view = "success" <=> last.validate.kind = "ok"
        /\ last.view = "suggestions" <=>
              (last.validate.kind # "ok" /\ RemoteCandidatesOfLast # <<>>)
        /\ last.view = "invalid_country" <=>
              (last.validate.kind # "ok" /\ RemoteCandidatesOfLast = <<>>)

\* C20: an entry enters the store only through a save or confirm call whose
\* validation succeeded in that call: a call whose validation did not
\* succeed, and every lookup, leaves the persisted sequence and the mapping
\* as they were, and no request removes or rewrites an entry of the
\* persisted sequence (the sequence before it is a prefix of the one after).
C20_EntriesOnlyByValidatedSave ==
    last.op # "load" =>
        /\ (last.op \in SaveOps /\ last.validate.kind # "ok")
              => (file = last.file0 /\ countryCapital = last.dict0)
        /\ last.op \notin SaveOps
              => (file = last.file0 /\ countryCapital = last.dict0)
        /\ file.entries # last.file0.entries
              => (last.op \in SaveOps /\ last.validate.kind = "ok")
        /\ Len(file.entries) >= Len(last.file0.entries)
        /\ SubSeq(file.entries, 1, Len(last.file0.entries)) = last.file0.entries

====
